---- MODULE Spec2Model ----
(***************************************************************************)
(* Model of the recipe evaluation scripts of dmis-lab/ASH:                 *)
(*   code/evaluation/5-round/evaluate_recipes_5_ollama.py        (ollama)  *)
(*   code/evaluation/5-round/evaluate_recipes_5_gemini_flash.py  (gemini)  *)
(*   code/evaluation/single/evaluate_recipes_4o_mini.py       (gpt4omini)  *)
(*                                                                         *)
(* A text is a sequence of tokens.  A token is one character (a digit,     *)
(* ".", ":", "*", "#", "/"), one whitespace character ("SP" a blank, "NL"  *)
(* a line feed), or one whole word.  The words the regular expressions of  *)
(* parse_evaluation look for (AUTHENTICITY, SENSITIVITY, HARMONY, Reason,  *)
(* Explanation) are tokens of their own and stand for every spelling that  *)
(* re.IGNORECASE accepts; every other word is an opaque token.             *)
(***************************************************************************)
EXTENDS Integers, Sequences, FiniteSets, TLC

\* ------------------------------------------------------------------ values
\* Python values that reach a record: None, a float, a str.  One record shape
\* for all three so that any two values can be compared.
\* A float is the decimal n / 10^d, kept normalised (no trailing zero in n
\* when d > 0), so equal numbers are equal values.
None == [tag |-> "none", n |-> 0, d |-> 0, s |-> <<>>]

Float(n, d) == [tag |-> "float", n |-> n, d |-> d, s |-> <<>>]

Str(s) == [tag |-> "str", n |-> 0, d |-> 0, s |-> s]

RECURSIVE Pow10(_)
Pow10(d) == IF d = 0 THEN 1 ELSE 10 * Pow10(d - 1)

RECURSIVE Normalise(_, _)
Normalise(n, d) ==
    IF d > 0 /\ n % 10 = 0 THEN Normalise(n \div 10, d - 1) ELSE Float(n, d)

\* ------------------------------------------------------------------ tokens
Digits == {"0", "1", "2", "3", "4", "5", "6", "7", "8", "9"}

DigitVal(c) ==
    CASE c = "0" -> 0 [] c = "1" -> 1 [] c = "2" -> 2 [] c = "3" -> 3
      [] c = "4" -> 4 [] c = "5" -> 5 [] c = "6" -> 6 [] c = "7" -> 7
      [] c = "8" -> 8 [] c = "9" -> 9

\* \s of the re module, over the whitespace the model has.
Whitespace == {"SP", "NL"}

Criteria == <<"authenticity", "sensitivity", "harmony">>

Label(c) ==
    CASE c = "authenticity" -> "AUTHENTICITY"
      [] c = "sensitivity" -> "SENSITIVITY"
      [] c = "harmony" -> "HARMONY"

Labels == {"AUTHENTICITY", "SENSITIVITY", "HARMONY"}

\* The criterion labels that occur in a text.
LabelsIn(text) == {l \in Labels : \E i \in 1..Len(text) : text[i] = l}

\* ------------------------------------------------------- string primitives
\* The end of the longest run of tokens of S that starts at p (a greedy X*).
SkipSet(t, p, S) ==
    CHOOSE q \in p..(Len(t) + 1) :
        /\ \A k \in p..(q - 1) : t[k] \in S
        /\ (q = Len(t) + 1 \/ t[q] \notin S)

At(t, p, S) == p >= 1 /\ p <= Len(t) /\ t[p] \in S

\* str.strip(): leading and trailing whitespace removed.
Strip(s) ==
    LET a == SkipSet(s, 1, Whitespace)
        b == IF a > Len(s) THEN a - 1
             ELSE CHOOSE q \in a..Len(s) :
                    /\ s[q] \notin Whitespace
                    /\ \A k \in (q + 1)..Len(s) : s[k] \in Whitespace
    IN  SubSeq(s, a, b)

\* re.sub(r'[^\d.]', '', value): keep the digits and the decimal points.
RECURSIVE StripNonNumeric(_)
StripNonNumeric(s) ==
    IF s = <<>> THEN <<>>
    ELSE IF Head(s) \in Digits \cup {"."}
         THEN <<Head(s)>> \o StripNonNumeric(Tail(s))
         ELSE StripNonNumeric(Tail(s))

RECURSIVE DigitsValue(_)
DigitsValue(s) ==
    IF s = <<>> THEN 0
    ELSE 10 * DigitsValue(SubSeq(s, 1, Len(s) - 1)) + DigitVal(s[Len(s)])

\* float(s) for a string of digits and decimal points: a ValueError (None
\* here) unless there is at least one digit and at most one point.
ParseFloat(s) ==
    LET dots == {k \in 1..Len(s) : s[k] = "."}
        digs == {k \in 1..Len(s) : s[k] \in Digits}
    IN  IF digs = {} \/ Cardinality(dots) > 1 \/ Cardinality(dots) + Cardinality(digs) # Len(s)
        THEN None
        ELSE IF dots = {}
             THEN Float(DigitsValue(s), 0)
             ELSE LET p == CHOOSE k \in dots : TRUE
                  IN  Normalise(DigitsValue(SubSeq(s, 1, p - 1) \o SubSeq(s, p + 1, Len(s))),
                                Len(s) - p)

\* 1 <= score <= 5 on floats.
InRange(v) == v.tag = "float" /\ v.n >= Pow10(v.d) /\ v.n <= 5 * Pow10(v.d)

\* The end (exclusive) of the match of \d+(?:\.\d+)? at p, 0 when none.
NumberEnd(t, p) ==
    IF ~At(t, p, Digits) THEN 0
    ELSE LET e == SkipSet(t, p, Digits)
         IN  IF At(t, e, {"."}) /\ At(t, e + 1, Digits)
             THEN SkipSet(t, e + 1, Digits)
             ELSE e

\* The end (exclusive) of the match of \d+ at p, 0 when none.
IntegerEnd(t, p) == IF ~At(t, p, Digits) THEN 0 ELSE SkipSet(t, p, Digits)

\* --------------------------------------------------------- re.search probes
\* The outcome of one re.search: no match, or group 1 of the match.
NoMatch == [found |-> FALSE, text |-> <<>>]

Match(s) == [found |-> TRUE, text |-> s]

Min(S) == CHOOSE x \in S : \A y \in S : x <= y

\* A score pattern  LABEL:?\s*(?:\*|\#)?\s*(\d+(?:\.\d+)?)  (marks, decimal)
\* or               LABEL:?\s*(\d+)                          (neither),
\* tried with the label at position i.  Every quantifier before the group is
\* greedy and what follows it cannot start with what it gave back, so the
\* greedy path is the only one that can match.
ScoreAt(t, i, pat) ==
    LET p1 == IF At(t, i + 1, {":"}) THEN i + 2 ELSE i + 1
        p2 == SkipSet(t, p1, Whitespace)
        p3 == IF pat.marks /\ At(t, p2, {"*", "#"}) THEN p2 + 1 ELSE p2
        p4 == IF pat.marks THEN SkipSet(t, p3, Whitespace) ELSE p3
        e  == IF pat.decimal THEN NumberEnd(t, p4) ELSE IntegerEnd(t, p4)
    IN  IF At(t, i, {pat.label}) /\ e # 0 THEN Match(SubSeq(t, p4, e - 1)) ELSE NoMatch

\* The lookahead that ends a reason at k:  (?=\n*(?:STOPS|$)),  (?=\n*STOPS)
\* or (?=$).  Without re.MULTILINE, $ matches at the end of the string and
\* just before a line feed that ends it.
Lookahead(t, k, pat) ==
    \E m \in k..(Len(t) + 1) :
        /\ pat.newlines \/ m = k
        /\ \A x \in k..(m - 1) : t[x] = "NL"
        /\ \/ pat.dollar /\ (m = Len(t) + 1 \/ (m = Len(t) /\ t[m] = "NL"))
           \/ At(t, m, pat.stops)

\* Group 1 of a reason pattern once its "Reason:" sits at j: \s* is greedy,
\* then (.*?) takes the fewest tokens that bring it to the lookahead, or (.*)
\* all the rest (re.DOTALL: "." matches line feeds too).
ReasonFrom(t, j, pat) ==
    LET p  == SkipSet(t, j + 2, Whitespace)
        ks == {k \in p..(Len(t) + 1) : Lookahead(t, k, pat)}
    IN  IF pat.greedy THEN Match(SubSeq(t, p, Len(t)))
        ELSE IF ks = {} THEN NoMatch
        ELSE Match(SubSeq(t, p, Min(ks) - 1))

\* A reason pattern  LABEL:.*?(?:Reason|Explanation):\s*(.*?)(?=...)  tried
\* with the label at position i: the lazy .*? stops at the first "Reason:"
\* from which the rest of the pattern matches.
ReasonAt(t, i, pat) ==
    LET a  == IF pat.colon THEN i + 2 ELSE i + 1
        js == {j \in a..Len(t) : /\ t[j] \in pat.words
                                 /\ At(t, j + 1, {":"})
                                 /\ ReasonFrom(t, j, pat).found}
    IN  IF /\ At(t, i, {pat.label})
           /\ (pat.colon => At(t, i + 1, {":"}))
           /\ js # {}
        THEN ReasonFrom(t, Min(js), pat)
        ELSE NoMatch

PatternAt(t, i, pat) == IF pat.score THEN ScoreAt(t, i, pat) ELSE ReasonAt(t, i, pat)

\* re.search(pattern, evaluation, re.DOTALL | re.IGNORECASE): the match at
\* the leftmost position that has one.
re_search(pat, t) ==
    LET hits == {i \in 1..Len(t) : PatternAt(t, i, pat).found}
    IN  IF hits = {} THEN NoMatch ELSE PatternAt(t, Min(hits), pat)

\* ------------------------------------------------------------ pattern tables
ScorePattern(key, label, marks, decimal) ==
    [key |-> key, score |-> TRUE, label |-> label, marks |-> marks, decimal |-> decimal,
     colon |-> FALSE, words |-> {}, stops |-> {}, newlines |-> FALSE, dollar |-> FALSE,
     greedy |-> FALSE]

ReasonPattern(key, label, colon, words, stops, newlines, dollar, greedy) ==
    [key |-> key, score |-> FALSE, label |-> label, marks |-> FALSE, decimal |-> FALSE,
     colon |-> colon, words |-> words, stops |-> stops, newlines |-> newlines,
     dollar |-> dollar, greedy |-> greedy]

ReasonWords == {"Reason", "Explanation"}

\* The table with the sensitivity score pattern pasted from the authenticity
\* one and its label left as it was.
patterns_ollama_pasted ==
    << ScorePattern("authenticity_score", "AUTHENTICITY", TRUE, TRUE),
       ReasonPattern("authenticity_reason", "AUTHENTICITY", TRUE, ReasonWords,
                     {"SENSITIVITY", "HARMONY"}, TRUE, TRUE, FALSE),
       ScorePattern("sensitivity_score", "AUTHENTICITY", TRUE, TRUE),
       ReasonPattern("sensitivity_reason", "SENSITIVITY", TRUE, ReasonWords,
                     {"HARMONY"}, TRUE, TRUE, FALSE),
       ScorePattern("harmony_score", "HARMONY", TRUE, TRUE),
       ReasonPattern("harmony_reason", "HARMONY", TRUE, ReasonWords,
                     {}, FALSE, TRUE, FALSE) >>

\* The table of evaluate_recipes_5_ollama.py and evaluate_recipes_4o_mini.py.
patterns_ollama ==
    << ScorePattern("authenticity_score", "AUTHENTICITY", TRUE, TRUE),
       ReasonPattern("authenticity_reason", "AUTHENTICITY", TRUE, ReasonWords,
                     {"SENSITIVITY", "HARMONY"}, TRUE, TRUE, FALSE),
       ScorePattern("sensitivity_score", "SENSITIVITY", TRUE, TRUE),
       ReasonPattern("sensitivity_reason", "SENSITIVITY", TRUE, ReasonWords,
                     {"HARMONY"}, TRUE, TRUE, FALSE),
       ScorePattern("harmony_score", "HARMONY", TRUE, TRUE),
       ReasonPattern("harmony_reason", "HARMONY", TRUE, ReasonWords,
                     {}, FALSE, TRUE, FALSE) >>

\* The table of evaluate_recipes_5_gemini_flash.py.
patterns_gemini ==
    << ScorePattern("authenticity_score", "AUTHENTICITY", FALSE, FALSE),
       ReasonPattern("authenticity_reason", "AUTHENTICITY", FALSE, {"Reason"},
                     {"SENSITIVITY"}, TRUE, FALSE, FALSE),
       ScorePattern("sensitivity_score", "SENSITIVITY", FALSE, FALSE),
       ReasonPattern("sensitivity_reason", "SENSITIVITY", FALSE, {"Reason"},
                     {"HARMONY"}, TRUE, FALSE, FALSE),
       ScorePattern("harmony_score", "HARMONY", FALSE, FALSE),
       ReasonPattern("harmony_reason", "HARMONY", FALSE, {"Reason"},
                     {}, FALSE, FALSE, TRUE) >>

ScoreKey(c) ==
    CASE c = "authenticity" -> "authenticity_score"
      [] c = "sensitivity" -> "sensitivity_score"
      [] c = "harmony" -> "harmony_score"

ReasonKey(c) ==
    CASE c = "authenticity" -> "authenticity_reason"
      [] c = "sensitivity" -> "sensitivity_reason"
      [] c = "harmony" -> "harmony_reason"

ScoreKeys == {"authenticity_score", "sensitivity_score", "harmony_score"}

ReasonKeys == {"authenticity_reason", "sensitivity_reason", "harmony_reason"}

ParsedKeys == ScoreKeys \cup ReasonKeys

\* key.replace('score', 'reason')
ReasonOf(key) ==
    CASE key = "authenticity_score" -> "authenticity_reason"
      [] key = "sensitivity_score" -> "sensitivity_reason"
      [] key = "harmony_score" -> "harmony_reason"

\* ------------------------------------------------------------------ parsing
\* float(value) without the re.sub before it.
Coerce_NoStrip(value) == ParseFloat(value)

\* Numeric coercion of a captured score: re.sub(r'[^\d.]', '', value), then
\* float(value), None on ValueError.
Coerce(value) == ParseFloat(StripNonNumeric(value))

\* One turn of the loop of parse_evaluation (ollama, gpt4omini).
ParseField(pat, evaluation) ==
    LET match == re_search(pat, evaluation)
        value == Strip(match.text)
    IN  IF match.found
        THEN IF pat.score THEN Coerce(value) ELSE Str(value)
        ELSE None

\* One turn of the loop of parse_evaluation (gemini): no coercion.
ParseFieldGemini(pat, evaluation) ==
    LET match == re_search(pat, evaluation)
    IN  IF match.found THEN Str(Strip(match.text)) ELSE None

PatternFor(table, key) == table[CHOOSE i \in 1..Len(table) : table[i].key = key]

parse_evaluation_ollama(evaluation) ==
    [key \in ParsedKeys |-> ParseField(PatternFor(patterns_ollama, key), evaluation)]

parse_evaluation_gemini(evaluation) ==
    [key \in ParsedKeys |-> ParseFieldGemini(PatternFor(patterns_gemini, key), evaluation)]

\* --------------------------------------------------------------- validation
\* re.search(r'\d+(?:\.\d+)?', text) and float(match.group()).
FirstNumber(text) ==
    LET hits == {i \in 1..Len(text) : text[i] \in Digits}
    IN  IF hits = {} THEN None
        ELSE LET i == Min(hits)
             IN  ParseFloat(SubSeq(text, i, NumberEnd(text, i) - 1))

\* The number found in the reason is taken without the test 1 <= score <= 5.
FixScore_NoRangeCheck(score, text) ==
    IF score = None \/ ~InRange(score)
    THEN IF text # None /\ text.s # <<>> THEN FirstNumber(text.s) ELSE None
    ELSE score

\* Only a missing score is looked up in the reason; a score out of range is
\* set to None at once.
FixScore_NullsOutOfRange(score, text) ==
    IF score = None
    THEN IF text # None /\ text.s # <<>>
         THEN LET found == FirstNumber(text.s)
              IN  IF found # None /\ InRange(found) THEN found ELSE None
         ELSE None
    ELSE IF InRange(score) THEN score ELSE None

\* The body of the loop of validate_and_fix_scores for one key.
FixScore(score, text) ==
    IF score = None \/ ~InRange(score)
    THEN IF text # None /\ text.s # <<>>
         THEN LET found == FirstNumber(text.s)
              IN  IF found # None /\ InRange(found) THEN found ELSE None
         ELSE None
    ELSE score

validate_and_fix_scores(parsed_evaluation) ==
    [key \in ParsedKeys |->
        IF key \in ScoreKeys
        THEN FixScore(parsed_evaluation[key], parsed_evaluation[ReasonOf(key)])
        ELSE parsed_evaluation[key]]

\* ------------------------------------------------------------------ bounds
\* The largest number of data rows of an input file.
MaxRows == 2

\* The largest number of calls of one run that fail while the provider is up.
MaxFailures == 1

\* ----------------------------------------------------------- configuration
Pipelines == {"ollama", "gemini", "gpt4omini"}

\* RecipeEvaluator.model_names of the ollama script, cut to its first two
\* entries (the script lists five); the other scripts have one evaluator.
model_names(p) ==
    CASE p = "ollama" -> <<"gemma2:2b", "gemma2:9b">>
      [] p = "gemini" -> <<"gemini-1.5-flash">>
      [] p = "gpt4omini" -> <<"gpt-4o-mini">>

\* range(1, 6): the last iteration; the single-round script evaluates once.
NumIterations == 5

Iterations(p) == IF p = "gpt4omini" THEN 1 ELSE NumIterations

RequiredColumns == {"original_dish", "variation", "generated_recipe"}

PassthroughColumns == {"index", "model", "ingredients", "instructions"}

\* fieldnames of save_to_csv.
fieldnames(p) ==
    RequiredColumns \cup PassthroughColumns
      \cup {"evaluation"} \cup ParsedKeys
      \cup (IF p = "gpt4omini" THEN {} ELSE {"evaluator_model", "iteration"})

\* ------------------------------------------------------------- environment
\* The header line of the input file: the columns save_to_csv of the recipe
\* generator writes.
GeneratedColumns == RequiredColumns \cup PassthroughColumns

\* Header lines with at least the columns evaluate_recipes reads: those alone,
\* those of the generator, and each of the two with one more column.
Headers ==
    { RequiredColumns, GeneratedColumns,
      RequiredColumns \cup {"notes"}, GeneratedColumns \cup {"notes"} }

Section(label, score, reason) ==
    <<label, ":", "SP">> \o score \o <<"NL", "Reason", ":", "SP">> \o reason

\* What the provider answers when a call succeeds.
Replies ==
    { Section("AUTHENTICITY", <<"4">>, <<"w">>) \o <<"NL">>
        \o Section("SENSITIVITY", <<"2">>, <<"w">>) \o <<"NL">>
        \o Section("HARMONY", <<"1", "0">>, <<"w", "SP", "3">>),
      Section("AUTHENTICITY", <<"9">>, <<"w">>),
      <<"w", "SP", "w">> }

\* str(e) of the exception a failed call raises; the second one quotes the
\* format lines of the prompt it was sent.
FailureMessages ==
    { <<"rate", "SP", "limited">>,
      <<"bad", "SP", "request", ":", "SP">> \o Section("AUTHENTICITY", <<"3">>, <<"w">>) }

PyInt(n) == [tag |-> "int", n |-> n, d |-> 0, s |-> <<>>]

DigitChar(i) == CHOOSE c \in Digits : DigitVal(c) = i

\* The cell of column col in data row i of the input file.
Cell(col, i) == Str(<<col, "#", DigitChar(i)>>)

\* The states of the API key file a script reads (the ollama script reads none).
KeyFiles(p) == IF p = "ollama" THEN {"present"} ELSE {"missing", "empty", "present"}

AllNone == [key \in ParsedKeys |-> None]

\* ---------------------------------------------------- function-level inputs
\* The longest reason text of a rendered answer.
MaxReasonLen == 2

\* The longest text drawn token by token.
MaxFreeLen == 3

\* The longest captured score string.
MaxCaptureLen == 5

\* Every sequence over A of length at most n.
Seqs(A, n) == UNION {[1..k -> A] : k \in 0..n}

\* The score strings of a rendered answer: in range, fractional, above the
\* range, below the range, not a number.
ScoreStrings == {<<"4">>, <<"4", ".", "5">>, <<"9">>, <<"0", ".", "5">>, <<"w">>}

ReasonAlphabet == {"w", "3", "9", ".", "HARMONY"}

FreeAlphabet == {"AUTHENTICITY", "HARMONY", "Reason", ":", "4", "w", "NL"}

CaptureAlphabet == {"4", "5", "0", ".", "*", "/"}

\* Leading whitespace, what separates two sections, trailing whitespace.
Layouts ==
    { [lead |-> <<>>, sep |-> <<"NL">>, trail |-> <<>>],
      [lead |-> <<"NL">>, sep |-> <<"NL", "NL">>, trail |-> <<"NL", "NL">>],
      [lead |-> <<"SP">>, sep |-> <<"SP">>, trail |-> <<"SP", "NL">>] }

\* An answer in the format the prompt asks for.  The section of criterion
\* focus carries score and reason; the two other sections are "full" (score
\* 2, reason w), "bare" (score 2 and no Reason line) or "absent".
Docs ==
    [kind : {"doc"}, focus : {"authenticity", "sensitivity", "harmony"},
     score : ScoreStrings, reason : Seqs(ReasonAlphabet, MaxReasonLen),
     others : {"full", "bare", "absent"}, layout : Layouts]

NoDoc ==
    [kind |-> "free", focus |-> "authenticity", score |-> <<>>, reason |-> <<>>,
     others |-> "absent", layout |-> CHOOSE l \in Layouts : l.lead = <<>>]

DocScore(doc, c) == IF c = doc.focus THEN doc.score ELSE <<"2">>

DocReason(doc, c) == IF c = doc.focus THEN doc.reason ELSE <<"w">>

DocSection(doc, c) ==
    CASE c = doc.focus \/ doc.others = "full" ->
            Section(Label(c), DocScore(doc, c), DocReason(doc, c)) \o doc.layout.sep
      [] c # doc.focus /\ doc.others = "bare" ->
            <<Label(c), ":", "SP">> \o DocScore(doc, c) \o doc.layout.sep
      [] c # doc.focus /\ doc.others = "absent" -> <<>>

\* The text of the answer: the three sections in the order of the prompt.
Render(doc) ==
    doc.layout.lead \o DocSection(doc, "authenticity") \o DocSection(doc, "sensitivity")
      \o DocSection(doc, "harmony") \o doc.layout.trail

\* --------------------------------------------------------------- generator
\* RecipeGenerator.dishes and RecipeGenerator.variations, each cut to its
\* first two entries (the script lists 20 and 40).
dishes == <<"Fried Rice", "Sandwich">>

variations == <<"Japanese", "Korean">>

\* What the provider answers to generate_recipe when a call succeeds: both
\* lists in braces, and the form of the prompt, which has no braces.
GenReplies ==
    { <<"ingredients", ":", "NL", "{", "1", ".", "SP", "w", "NL", "-", "SP", "w", "}", "NL",
        "instructions", ":", "SP", "{", "w", "NL", "NL", "2", ".", "w", "}">>,
      <<"ingredients", ":", "NL", "w", "NL", "instructions", ":", "NL", "1", ".", "SP", "w">> }

\* re.search(r'WORD:\s*{(.*?)}', result, re.IGNORECASE | re.DOTALL) tried with
\* the word at position i: group 1 ends before the first closing brace.
BraceAt(t, i, word) ==
    LET p  == SkipSet(t, i + 2, Whitespace)
        ks == {k \in (p + 1)..Len(t) : t[k] = "}"}
    IN  IF At(t, i, {word}) /\ At(t, i + 1, {":"}) /\ At(t, p, {"{"}) /\ ks # {}
        THEN Match(SubSeq(t, p + 1, Min(ks) - 1))
        ELSE NoMatch

\* match.group(1).strip() if match else ""
BraceGroup(t, word) ==
    LET hits == {i \in 1..Len(t) : BraceAt(t, i, word).found}
    IN  IF hits = {} THEN <<>> ELSE Strip(BraceAt(t, Min(hits), word).text)

\* str.split('\n')
RECURSIVE SplitLines(_)
SplitLines(s) ==
    LET nls == {k \in 1..Len(s) : s[k] = "NL"}
    IN  IF nls = {} THEN <<s>>
        ELSE <<SubSeq(s, 1, Min(nls) - 1)>> \o SplitLines(SubSeq(s, Min(nls) + 1, Len(s)))

\* The characters lstrip('0123456789. *-') removes.
ListMarks == Digits \cup {".", "SP", "*", "-"}

\* [line.strip().lstrip('0123456789. *-') for line in lines if line.strip()]
RECURSIVE CleanLines(_)
CleanLines(lines) ==
    IF lines = <<>> THEN <<>>
    ELSE LET line == Strip(Head(lines))
         IN  IF line = <<>> THEN CleanLines(Tail(lines))
             ELSE <<SubSeq(line, SkipSet(line, 1, ListMarks), Len(line))>>
                    \o CleanLines(Tail(lines))

\* sep.join(lines)
RECURSIVE Join(_, _)
Join(sep, lines) ==
    IF lines = <<>> THEN <<>>
    ELSE IF Len(lines) = 1 THEN Head(lines)
    ELSE Head(lines) \o sep \o Join(sep, Tail(lines))

\* extract_ingredients_instructions(result)
extract_ingredients_instructions(result) ==
    [ingredients  |-> Join(<<",", "SP">>, CleanLines(SplitLines(BraceGroup(result, "ingredients")))),
     instructions |-> Join(<<"NL">>, CleanLines(SplitLines(BraceGroup(result, "instructions"))))]

VARIABLES
    pipeline,           \* which script runs
    key_file,           \* the API key file: "missing", "empty" or "present"
    header,             \* the columns of the input file
    nrows,              \* the number of data rows of the input file
    provider,           \* "up", or "down" (every call fails)
    reply,              \* the text of a successful call
    fail_msg,           \* the message of a failed call
    pc,                 \* where the run is
    error,              \* the exception that ended the run, "" when none
    total_rows,         \* evaluate_recipes: total_rows
    cursor,             \* lines of the input file the reader has consumed
    index,              \* evaluate_recipes: index
    row,                \* evaluate_recipes: row (a reference into heap)
    model_idx,          \* position of model_name in model_names
    iteration,          \* evaluate_recipes: iteration
    evaluation,         \* evaluate_recipes: evaluation
    parsed_evaluation,  \* evaluate_recipes: parsed_evaluation
    new_row,            \* evaluate_recipes: new_row / row_copy (a reference)
    heap,               \* the dict objects, by reference
    results,            \* evaluate_recipes: results (references)
    failures,           \* calls that failed while the provider was up
    writes,             \* times the output file was opened for writing
    output,             \* the rows written to the output file
    dish_idx,           \* generate_recipes: position of dish in dishes
    variation_idx,      \* generate_recipes: position of variation in variations
    self_index,         \* RecipeGenerator: self.index
    generated_recipe,   \* generate_recipes: generated_recipe
    fn_pc,              \* where the function-level run is
    fn_parser,          \* the script whose parse_evaluation is applied
    fn_doc,             \* what the text was rendered from
    fn_text,            \* the text given to parse_evaluation
    fn_parsed,          \* parse_evaluation(fn_text)
    fn_fixed,           \* validate_and_fix_scores applied once
    fn_refixed,         \* validate_and_fix_scores applied twice
    fn_capture,         \* a captured score string
    fn_score            \* the coercion of fn_capture

vars == <<pipeline, key_file, header, nrows, provider, reply, fail_msg, pc, error,
          total_rows, cursor, index, row, model_idx, iteration, evaluation,
          parsed_evaluation, new_row, heap, results, failures, writes, output,
          dish_idx, variation_idx, self_index, generated_recipe,
          fn_pc, fn_parser, fn_doc, fn_text, fn_parsed, fn_fixed, fn_refixed,
          fn_capture, fn_score>>

fnvars == <<fn_pc, fn_parser, fn_doc, fn_text, fn_parsed, fn_fixed, fn_refixed,
            fn_capture, fn_score>>

\* The variables of the generator alone.
genvars == <<dish_idx, variation_idx, self_index, generated_recipe>>

\* What no step of an evaluator run changes.
env == <<pipeline, key_file, header, nrows, provider, reply, fail_msg, genvars, fnvars>>

\* The run's own variables.
runvars == <<pipeline, key_file, header, nrows, provider, reply, fail_msg, pc, error,
             total_rows, cursor, index, row, model_idx, iteration, evaluation,
             parsed_evaluation, new_row, heap, results, failures, writes, output,
             genvars>>

\* The function-level variables of a state in which no function-level run
\* takes place.
FnIdle ==
    /\ fn_pc = "idle"
    /\ fn_parser = "ollama"
    /\ fn_doc = NoDoc
    /\ fn_text = <<>>
    /\ fn_parsed = AllNone
    /\ fn_fixed = AllNone
    /\ fn_refixed = AllNone
    /\ fn_capture = <<>>
    /\ fn_score = None

\* The generator's variables before RecipeGenerator() and in a run of another
\* script.
GenIdle ==
    /\ dish_idx = 0
    /\ variation_idx = 0
    /\ self_index = 0
    /\ generated_recipe = <<>>

\* The variables of a run before main has done anything.
Start ==
    /\ pc = "main"
    /\ error = ""
    /\ total_rows = 0
    /\ cursor = 0
    /\ index = 0
    /\ row = 0
    /\ model_idx = 0
    /\ iteration = 0
    /\ evaluation = <<>>
    /\ parsed_evaluation = AllNone
    /\ new_row = 0
    /\ heap = <<>>
    /\ results = <<>>
    /\ failures = 0
    /\ writes = 0
    /\ output = <<>>
    /\ GenIdle
    /\ FnIdle

Init ==
    /\ pipeline \in Pipelines
    /\ key_file \in KeyFiles(pipeline)
    /\ header = GeneratedColumns
    /\ nrows \in 0..MaxRows
    /\ provider \in {"up", "down"}
    /\ reply \in Replies
    /\ fail_msg \in FailureMessages
    /\ Start

\* An evaluator script on an input file with any of the header lines; the key
\* file is there, the provider is up and may fail once.
InitHeader ==
    /\ pipeline \in Pipelines
    /\ key_file = "present"
    /\ header \in Headers
    /\ nrows \in 0..MaxRows
    /\ provider = "up"
    /\ reply \in {r \in Replies : LabelsIn(r) = Labels}
    /\ fail_msg \in {m \in FailureMessages : LabelsIn(m) = {}}
    /\ Start

\* The generator script or an evaluator script that reads a key file, with
\* its key file in any state.
InitKey ==
    /\ pipeline \in {"gemini", "gpt4omini", "generator"}
    /\ key_file \in {"missing", "empty", "present"}
    /\ header = GeneratedColumns
    /\ nrows \in IF pipeline = "generator" THEN {0} ELSE 0..MaxRows
    /\ provider \in {"up", "down"}
    /\ reply \in IF pipeline = "generator" THEN GenReplies ELSE Replies
    /\ fail_msg \in FailureMessages
    /\ Start

\* ------------------------------------------------------------ dict helpers
\* dict.update: the keys of upd are set, every other key is kept.
Update(dict, upd) ==
    [k \in (DOMAIN dict) \cup (DOMAIN upd) |-> IF k \in DOMAIN upd THEN upd[k] ELSE dict[k]]

\* The keys evaluate_recipes sets on the row of a triple.
RowUpdate(p, name, iter, text, parsed) ==
    LET common == [k \in {"evaluation"} \cup ParsedKeys |->
                      IF k = "evaluation" THEN Str(text) ELSE parsed[k]]
        triple == [k \in {"evaluator_model", "iteration"} |->
                      IF k = "iteration" THEN PyInt(iter) ELSE Str(<<name>>)]
    IN  IF p = "gpt4omini" THEN common ELSE Update(common, triple)

\* The text evaluate_recipe returns from its except clause.
ErrorText(p, msg) ==
    IF p \in {"ollama", "generator"} THEN <<"Error", ":", "SP">> \o msg
    ELSE <<"Error", "SP", "in", "SP", "evaluation", ":", "SP">> \o msg

parse_evaluation(p, text) ==
    IF p = "gemini" THEN parse_evaluation_gemini(text) ELSE parse_evaluation_ollama(text)

\* file.seek(0) after the counting pass.
Rewind(consumed) == 0

\* next(reader) left out: the header line is still to be read.
SkipLine_Forgotten(consumed) == consumed

\* next(reader): one more line of the file is consumed.
SkipLine(consumed) == consumed + 1

\* The dict csv.DictReader builds from line n of the file (line 1 is the
\* header, which the reader has already taken as its fieldnames).
ReadRow(n) == [col \in header |-> Cell(col, n - 1)]

\* ----------------------------------------------------------------- actions
\* main: evaluator = RecipeEvaluator().  __init__ of the gemini and gpt4omini
\* scripts reads the key file and raises when it is missing or empty.
Construct ==
    /\ pc = "main"
    /\ pipeline \in Pipelines
    /\ IF pipeline = "ollama" \/ key_file = "present"
       THEN pc' = "open" /\ error' = error
       ELSE /\ pc' = "aborted"
            /\ error' = IF key_file = "missing" THEN "FileNotFoundError" ELSE "Exception"
    /\ UNCHANGED <<env, total_rows, cursor, index, row, model_idx, iteration, evaluation,
                   parsed_evaluation, new_row, heap, results, failures, writes, output>>

\* evaluate_recipes up to its loop: results = [], the counting pass over the
\* reader, file.seek(0), next(reader).
Open ==
    /\ pc = "open"
    /\ results' = <<>>
    /\ total_rows' = nrows
    /\ cursor' = SkipLine(Rewind(nrows + 1))
    /\ pc' = "next_row"
    /\ UNCHANGED <<env, error, index, row, model_idx, iteration, evaluation,
                   parsed_evaluation, new_row, heap, failures, writes, output>>

\* The columns of the row the log lines at the head of the loop read.
LoggedColumns(p) ==
    CASE p = "ollama" -> {"original_dish", "variation"}
      [] p = "gemini" -> {}
      [] p = "gpt4omini" -> {"model", "original_dish", "variation"}

\* for index, row in enumerate(reader, start=1): the next row and the log
\* lines about it (row[...] of a column the file has not raises KeyError),
\* or the end of the loop and the return of results to main.
NextRow ==
    /\ pc = "next_row"
    /\ IF cursor < nrows + 1
       THEN /\ cursor' = cursor + 1
            /\ index' = index + 1
            /\ heap' = Append(heap, ReadRow(cursor + 1))
            /\ row' = Len(heap) + 1
            /\ IF LoggedColumns(pipeline) \subseteq header
               THEN /\ model_idx' = 1
                    /\ iteration' = 1
                    /\ pc' = "call"
                    /\ error' = error
               ELSE /\ pc' = "aborted"
                    /\ error' = "KeyError"
                    /\ UNCHANGED <<model_idx, iteration>>
       ELSE /\ pc' = "save"
            /\ UNCHANGED <<cursor, index, heap, row, model_idx, iteration, error>>
    /\ UNCHANGED <<env, total_rows, evaluation, parsed_evaluation, new_row,
                   results, failures, writes, output>>

\* row_copy = row.copy() of the gemini script, which copies before the call.
CopyBeforeCall ==
    IF pipeline = "gemini"
    THEN heap' = Append(heap, heap[row]) /\ new_row' = Len(heap) + 1
    ELSE UNCHANGED <<heap, new_row>>

\* evaluate_recipe, the call succeeds: the text of the answer is returned.
CallReturns ==
    /\ pc = "call"
    /\ provider = "up"
    /\ CopyBeforeCall
    /\ evaluation' = reply
    /\ pc' = "parse"
    /\ UNCHANGED <<env, error, total_rows, cursor, index, row, model_idx, iteration,
                   parsed_evaluation, results, failures, writes, output>>

\* evaluate_recipe, the call raises inside the try: the except clause returns
\* the error string.
CallFails ==
    /\ pc = "call"
    /\ provider = "down" \/ failures < MaxFailures
    /\ CopyBeforeCall
    /\ evaluation' = ErrorText(pipeline, fail_msg)
    /\ failures' = IF provider = "up" THEN failures + 1 ELSE failures
    /\ pc' = "parse"
    /\ UNCHANGED <<env, error, total_rows, cursor, index, row, model_idx, iteration,
                   parsed_evaluation, results, writes, output>>

\* evaluate_recipe of the ollama script: llm = ChatOllama(model=model_name)
\* stands before the try, so what it raises leaves evaluate_recipe,
\* evaluate_recipes and main.
ConstructionRaises ==
    /\ pc = "call"
    /\ pipeline = "ollama"
    /\ pc' = "aborted"
    /\ error' = "ChatOllama"
    /\ UNCHANGED <<env, total_rows, cursor, index, row, model_idx, iteration, evaluation,
                   parsed_evaluation, new_row, heap, results, failures, writes, output>>

\* parsed_evaluation = self.parse_evaluation(evaluation)
Parse ==
    /\ pc = "parse"
    /\ parsed_evaluation' = parse_evaluation(pipeline, evaluation)
    /\ pc' = IF pipeline = "gemini" THEN "append" ELSE "validate"
    /\ UNCHANGED <<env, error, total_rows, cursor, index, row, model_idx, iteration,
                   evaluation, new_row, heap, results, failures, writes, output>>

\* parsed_evaluation = self.validate_and_fix_scores(parsed_evaluation)
Validate ==
    /\ pc = "validate"
    /\ parsed_evaluation' = validate_and_fix_scores(parsed_evaluation)
    /\ pc' = "append"
    /\ UNCHANGED <<env, error, total_rows, cursor, index, row, model_idx, iteration,
                   evaluation, new_row, heap, results, failures, writes, output>>

\* new_row = row with no copy: every triple of a row updates and appends the
\* dict of the row itself.
BuildRecord_NoCopy(upd) ==
    [ref |-> row, heap |-> [heap EXCEPT ![row] = Update(@, upd)]]

\* The reference and the heap after the record of the triple is built:
\* ollama copies the row and updates the copy, gemini updates the copy it made
\* before the call, gpt4omini updates the row itself.
BuildRecord(upd) ==
    CASE pipeline = "ollama" ->
            [ref |-> Len(heap) + 1, heap |-> Append(heap, Update(heap[row], upd))]
      [] pipeline = "gemini" ->
            [ref |-> new_row, heap |-> [heap EXCEPT ![new_row] = Update(@, upd)]]
      [] pipeline = "gpt4omini" ->
            [ref |-> row, heap |-> [heap EXCEPT ![row] = Update(@, upd)]]

\* new_row.update({...}); results.append(new_row)
AppendRecord ==
    /\ pc = "append"
    /\ LET built == BuildRecord(RowUpdate(pipeline, model_names(pipeline)[model_idx],
                                          iteration, evaluation, parsed_evaluation))
       IN  /\ heap' = built.heap
           /\ new_row' = built.ref
           /\ results' = Append(results, built.ref)
    /\ pc' = "sleep"
    /\ UNCHANGED <<env, error, total_rows, cursor, index, row, model_idx, iteration,
                   evaluation, parsed_evaluation, failures, writes, output>>

\* "return results" indented into the loop over the rows: the run returns
\* after the last triple of the first row.
Sleep_ReturnInsideLoop ==
    /\ pc = "sleep"
    /\ IF iteration < Iterations(pipeline)
       THEN iteration' = iteration + 1 /\ pc' = "call" /\ UNCHANGED model_idx
       ELSE IF model_idx < Len(model_names(pipeline))
            THEN model_idx' = model_idx + 1 /\ iteration' = 1 /\ pc' = "call"
            ELSE pc' = "save" /\ UNCHANGED <<model_idx, iteration>>
    /\ UNCHANGED <<env, error, total_rows, cursor, index, row, evaluation,
                   parsed_evaluation, new_row, heap, results, failures, writes, output>>

\* time.sleep(1), then the next turn of the innermost loop that has one.
Sleep ==
    /\ pc = "sleep"
    /\ IF iteration < Iterations(pipeline)
       THEN iteration' = iteration + 1 /\ pc' = "call" /\ UNCHANGED model_idx
       ELSE IF model_idx < Len(model_names(pipeline))
            THEN model_idx' = model_idx + 1 /\ iteration' = 1 /\ pc' = "call"
            ELSE pc' = "next_row" /\ UNCHANGED <<model_idx, iteration>>
    /\ UNCHANGED <<env, error, total_rows, cursor, index, row, evaluation,
                   parsed_evaluation, new_row, heap, results, failures, writes, output>>

\* The rows csv.DictWriter.writerow accepts before it raises ValueError for a
\* dict with a key that is no fieldname.
RECURSIVE WrittenRows(_, _)
WrittenRows(refs, names) ==
    IF refs = <<>> \/ ~(DOMAIN heap[Head(refs)] \subseteq names) THEN <<>>
    ELSE <<heap[Head(refs)]>> \o WrittenRows(Tail(refs), names)

\* main: evaluator.save_to_csv(results)
save_to_csv ==
    /\ pc = "save"
    /\ writes' = writes + 1
    /\ output' = WrittenRows(results, fieldnames(pipeline))
    /\ IF Len(output') = Len(results)
       THEN pc' = "done" /\ error' = error
       ELSE pc' = "aborted" /\ error' = "ValueError"
    /\ UNCHANGED <<env, total_rows, cursor, index, row, model_idx, iteration, evaluation,
                   parsed_evaluation, new_row, heap, results, failures>>

\* --------------------------------------------------------- generator run
\* main: generator = RecipeGenerator(), then generate_recipes up to its
\* loops.  __init__ sets self.index and reads the key file: what open raises
\* is logged and raised again; the key it read is not looked at.
GenConstruct ==
    /\ pc = "main"
    /\ pipeline = "generator"
    /\ self_index' = 1
    /\ IF key_file = "missing"
       THEN /\ pc' = "aborted"
            /\ error' = "FileNotFoundError"
            /\ UNCHANGED <<results, dish_idx, variation_idx>>
       ELSE /\ pc' = "gen_call"
            /\ error' = error
            /\ results' = <<>>
            /\ dish_idx' = 1
            /\ variation_idx' = 1
    /\ UNCHANGED <<pipeline, key_file, header, nrows, provider, reply, fail_msg, fnvars,
                   total_rows, cursor, index, row, model_idx, iteration, evaluation,
                   parsed_evaluation, new_row, heap, failures, writes, output,
                   generated_recipe>>

\* generate_recipe, the call succeeds: the text of the answer is returned.
GenCallReturns ==
    /\ pc = "gen_call"
    /\ key_file = "present"
    /\ provider = "up"
    /\ generated_recipe' = reply
    /\ pc' = "gen_append"
    /\ UNCHANGED <<pipeline, key_file, header, nrows, provider, reply, fail_msg, fnvars,
                   error, total_rows, cursor, index, row, model_idx, iteration, evaluation,
                   parsed_evaluation, new_row, heap, results, failures, writes, output,
                   dish_idx, variation_idx, self_index>>

\* generate_recipe, the call raises inside the try (every call made with an
\* empty key does): the except clause returns the error string.
GenCallFails ==
    /\ pc = "gen_call"
    /\ key_file = "empty" \/ provider = "down" \/ failures < MaxFailures
    /\ generated_recipe' = ErrorText(pipeline, fail_msg)
    /\ failures' = IF key_file = "present" /\ provider = "up" THEN failures + 1 ELSE failures
    /\ pc' = "gen_append"
    /\ UNCHANGED <<pipeline, key_file, header, nrows, provider, reply, fail_msg, fnvars,
                   error, total_rows, cursor, index, row, model_idx, iteration, evaluation,
                   parsed_evaluation, new_row, heap, results, writes, output,
                   dish_idx, variation_idx, self_index>>

\* The dict generate_recipes appends for one dish and one variation.
GenRecord(dish, variation) ==
    LET lists == extract_ingredients_instructions(generated_recipe)
    IN  [col \in GeneratedColumns |->
            CASE col = "index" -> PyInt(self_index)
              [] col = "model" -> Str(<<"gpt-4o-mini">>)
              [] col = "original_dish" -> Str(<<dish>>)
              [] col = "variation" -> Str(<<variation>>)
              [] col = "generated_recipe" -> Str(generated_recipe)
              [] col = "ingredients" -> Str(lists.ingredients)
              [] col = "instructions" -> Str(lists.instructions)]

\* extract_ingredients_instructions, results.append({...}), self.index += 1
GenAppend ==
    /\ pc = "gen_append"
    /\ heap' = Append(heap, GenRecord(dishes[dish_idx], variations[variation_idx]))
    /\ results' = Append(results, Len(heap) + 1)
    /\ self_index' = self_index + 1
    /\ pc' = "gen_sleep"
    /\ UNCHANGED <<pipeline, key_file, header, nrows, provider, reply, fail_msg, fnvars,
                   error, total_rows, cursor, index, row, model_idx, iteration, evaluation,
                   parsed_evaluation, new_row, failures, writes, output,
                   dish_idx, variation_idx, generated_recipe>>

\* time.sleep(1), then the next turn of the innermost loop that has one, or
\* the return of results to main.
GenSleep ==
    /\ pc = "gen_sleep"
    /\ IF variation_idx < Len(variations)
       THEN variation_idx' = variation_idx + 1 /\ pc' = "gen_call" /\ UNCHANGED dish_idx
       ELSE IF dish_idx < Len(dishes)
            THEN dish_idx' = dish_idx + 1 /\ variation_idx' = 1 /\ pc' = "gen_call"
            ELSE pc' = "gen_save" /\ UNCHANGED <<dish_idx, variation_idx>>
    /\ UNCHANGED <<pipeline, key_file, header, nrows, provider, reply, fail_msg, fnvars,
                   error, total_rows, cursor, index, row, model_idx, iteration, evaluation,
                   parsed_evaluation, new_row, heap, results, failures, writes, output,
                   self_index, generated_recipe>>

\* main: generator.save_to_csv(results)
GenSave ==
    /\ pc = "gen_save"
    /\ writes' = writes + 1
    /\ output' = WrittenRows(results, GeneratedColumns)
    /\ IF Len(output') = Len(results)
       THEN pc' = "done" /\ error' = error
       ELSE pc' = "aborted" /\ error' = "ValueError"
    /\ UNCHANGED <<pipeline, key_file, header, nrows, provider, reply, fail_msg, fnvars,
                   total_rows, cursor, index, row, model_idx, iteration, evaluation,
                   parsed_evaluation, new_row, heap, results, failures, genvars>>

\* ---------------------------------------------------- function-level runs
\* The variables of a run in a state in which no run takes place.
RunIdle ==
    /\ pipeline = "ollama"
    /\ key_file = "present"
    /\ header = GeneratedColumns
    /\ nrows = 0
    /\ provider = "up"
    /\ reply = <<>>
    /\ fail_msg = <<>>
    /\ pc = "idle"
    /\ error = ""
    /\ total_rows = 0
    /\ cursor = 0
    /\ index = 0
    /\ row = 0
    /\ model_idx = 0
    /\ iteration = 0
    /\ evaluation = <<>>
    /\ parsed_evaluation = AllNone
    /\ new_row = 0
    /\ heap = <<>>
    /\ results = <<>>
    /\ failures = 0
    /\ writes = 0
    /\ output = <<>>
    /\ GenIdle

\* One text for parse_evaluation of one script (the gpt4omini script has the
\* parser and the validator of the ollama script), or one captured score
\* string for the coercion.
InitFn ==
    /\ RunIdle
    /\ fn_parser \in {"ollama", "gemini"}
    /\ fn_parsed = AllNone
    /\ fn_fixed = AllNone
    /\ fn_refixed = AllNone
    /\ fn_score = None
    /\ \/ /\ fn_pc = "text"
          /\ fn_doc \in Docs
          /\ fn_text = Render(fn_doc)
          /\ fn_capture = <<>>
       \/ /\ fn_pc = "text"
          /\ fn_doc = NoDoc
          /\ fn_text \in Seqs(FreeAlphabet, MaxFreeLen)
          /\ fn_capture = <<>>
       \/ /\ fn_pc = "capture"
          /\ fn_parser = "ollama"
          /\ fn_doc = NoDoc
          /\ fn_text = <<>>
          /\ fn_capture \in Seqs(CaptureAlphabet, MaxCaptureLen)

\* parse_evaluation(fn_text)
FnParse ==
    /\ fn_pc = "text"
    /\ fn_parsed' = parse_evaluation(fn_parser, fn_text)
    /\ fn_pc' = "parsed"
    /\ UNCHANGED <<runvars, fn_parser, fn_doc, fn_text, fn_fixed, fn_refixed,
                   fn_capture, fn_score>>

\* validate_and_fix_scores on what parse_evaluation returned (the gemini
\* script has no validator).
FnValidate ==
    /\ fn_pc = "parsed"
    /\ fn_parser # "gemini"
    /\ fn_fixed' = validate_and_fix_scores(fn_parsed)
    /\ fn_pc' = "fixed"
    /\ UNCHANGED <<runvars, fn_parser, fn_doc, fn_text, fn_parsed, fn_refixed,
                   fn_capture, fn_score>>

\* validate_and_fix_scores on its own result.
FnRevalidate ==
    /\ fn_pc = "fixed"
    /\ fn_refixed' = validate_and_fix_scores(fn_fixed)
    /\ fn_pc' = "refixed"
    /\ UNCHANGED <<runvars, fn_parser, fn_doc, fn_text, fn_parsed, fn_fixed,
                   fn_capture, fn_score>>

\* The numeric coercion of parse_evaluation on one captured string.
FnCoerce ==
    /\ fn_pc = "capture"
    /\ fn_score' = Coerce(fn_capture)
    /\ fn_pc' = "coerced"
    /\ UNCHANGED <<runvars, fn_parser, fn_doc, fn_text, fn_parsed, fn_fixed,
                   fn_refixed, fn_capture>>

NextFn ==
    \/ FnParse
    \/ FnValidate
    \/ FnRevalidate
    \/ FnCoerce

SpecFn == InitFn /\ [][NextFn]_vars

Next ==
    \/ Construct
    \/ Open
    \/ NextRow
    \/ CallReturns
    \/ CallFails
    \/ ConstructionRaises
    \/ Parse
    \/ Validate
    \/ AppendRecord
    \/ Sleep
    \/ save_to_csv

Spec == Init /\ [][Next]_vars

\* The evaluator scripts on input files of every header line.
SpecHeader == InitHeader /\ [][Next]_vars

\* The scripts that read a key file.
NextKey ==
    \/ Construct
    \/ Open
    \/ NextRow
    \/ CallReturns
    \/ CallFails
    \/ Parse
    \/ Validate
    \/ AppendRecord
    \/ Sleep
    \/ save_to_csv
    \/ GenConstruct
    \/ GenCallReturns
    \/ GenCallFails
    \/ GenAppend
    \/ GenSleep
    \/ GenSave

SpecKey == InitKey /\ [][NextKey]_vars
\* ================================================================== claims
\* The record at position i of results.
Record(i) == heap[results[i]]

\* The number of triples of the run.
Triples == nrows * Len(model_names(pipeline)) * Iterations(pipeline)

\* A score as a number: a float as it is, a string of digits by its value.
AsNumber(v) == IF v.tag = "str" THEN ParseFloat(v.s) ELSE v

FnParsed == fn_pc \in {"parsed", "fixed", "refixed"}

FnFixed == fn_pc \in {"fixed", "refixed"}

\* C1 (as claimed): in every pipeline, each score of every record of results
\* is None or a number within [1,5].
C1_ScoresNoneOrInRange ==
    \A i \in 1..Len(results) : \A k \in ScoreKeys :
        Record(i)[k] = None \/ InRange(AsNumber(Record(i)[k]))

\* C2: when evaluate_recipes has returned in a script with iterations, results
\* holds exactly one record for each (row, evaluator, iteration in 1..5), and
\* a record whose evaluation text held no criterion label has six None fields.
C2_OneRecordPerTriple ==
    (pc \in {"save", "done"} /\ pipeline # "gpt4omini") =>
        /\ Len(results) = nrows * Len(model_names(pipeline)) * NumIterations
        /\ \A r \in 1..nrows : \A m \in 1..Len(model_names(pipeline)) :
             \A it \in 1..NumIterations :
                Cardinality({i \in 1..Len(results) :
                    /\ Record(i)["original_dish"] = Cell("original_dish", r)
                    /\ Record(i)["evaluator_model"] = Str(<<model_names(pipeline)[m]>>)
                    /\ Record(i)["iteration"] = PyInt(it)}) = 1
        /\ \A i \in 1..Len(results) :
             LabelsIn(Record(i)["evaluation"].s) = {} =>
                \A k \in ParsedKeys : Record(i)[k] = None

\* C2 witness: a two-row ollama run has returned after a call failed.
C2_Witness ==
    /\ pc = "done" /\ pipeline = "ollama" /\ nrows >= 2 /\ failures >= 1
    /\ Len(results) = nrows * 2 * NumIterations

\* C3 (as claimed): a run ends with an exception only in setup, before the
\* first row is read; nothing raised while a triple is processed escapes.
C3_NoExceptionEscapesTriple ==
    pc = "aborted" => (index = 0 /\ error \in {"FileNotFoundError", "Exception"})

\* C9 (as claimed): the record built from the error string of a failed call
\* has three None scores and three None reasons.
C9_ErrorRecordAllNone ==
    \A i \in 1..Len(results) :
        Record(i)["evaluation"] = Str(ErrorText(pipeline, fail_msg)) =>
            \A k \in ParsedKeys : Record(i)[k] = None

\* C10: results is empty when the run starts; the output file is written at
\* most once, exactly once by a run that completes, and only when the record
\* of every triple has been appended; nothing is written before.
C10_WrittenOnceAfterLastTriple ==
    /\ pc \in {"main", "open"} => results = <<>>
    /\ writes <= 1
    /\ pc = "done" => writes = 1
    /\ writes = 0 => output = <<>>
    /\ writes = 1 =>
         /\ pc \in {"done", "aborted"}
         /\ Len(results) = Triples
         /\ output = [i \in 1..Len(results) |-> Record(i)]

\* C10 witness: a run with rows has written its records.
C10_Witness == pc = "done" /\ writes = 1 /\ nrows >= 2 /\ Len(output) = Triples

\* C4 (as claimed): from an answer with all three sections in the format of
\* the prompt, parse_evaluation returns the three scores and the three reason
\* texts as written, whatever the reason texts are.
C4_RecoversExactly ==
    (FnParsed /\ fn_doc.kind = "doc" /\ fn_doc.others = "full"
        /\ ParseFloat(fn_doc.score) # None) =>
        \A k \in 1..3 :
            LET c == Criteria[k]
            IN  /\ fn_parsed[ReasonKey(c)] = Str(DocReason(fn_doc, c))
                /\ fn_parsed[ScoreKey(c)] =
                     IF fn_parser = "gemini" THEN Str(DocScore(fn_doc, c))
                     ELSE ParseFloat(DocScore(fn_doc, c))

\* C5: a text with no criterion label parses to six None fields, and a text
\* whose only label is that of one criterion parses to None for the score and
\* the reason of the two other criteria.
C5_GracefulDegradation ==
    FnParsed =>
        /\ LabelsIn(fn_text) = {} => \A k \in ParsedKeys : fn_parsed[k] = None
        /\ \A a \in 1..3 : \A b \in 1..3 :
             (LabelsIn(fn_text) = {Label(Criteria[a])} /\ a # b) =>
                /\ fn_parsed[ScoreKey(Criteria[b])] = None
                /\ fn_parsed[ReasonKey(Criteria[b])] = None

\* C5 witness: a text with the sensitivity label alone, whose score and reason
\* were extracted.
C5_Witness ==
    /\ fn_pc = "parsed"
    /\ LabelsIn(fn_text) = {"SENSITIVITY"}
    /\ fn_parsed["sensitivity_score"] # None
    /\ fn_parsed["sensitivity_reason"] # None

C6_NoDigit(capture) == \A i \in 1..Len(capture) : capture[i] \notin Digits

C7_RepairFromReason ==
    FnFixed =>
        \A k \in 1..3 :
            LET score  == fn_parsed[ScoreKey(Criteria[k])]
                reason == fn_parsed[ReasonKey(Criteria[k])]
                token  == IF reason = None THEN None ELSE FirstNumber(reason.s)
            IN  /\ fn_fixed[ReasonKey(Criteria[k])] = reason
                /\ (score = None \/ ~InRange(score)) =>
                      fn_fixed[ScoreKey(Criteria[k])] =
                          IF token # None /\ InRange(token) THEN token ELSE None

\* C7 witness: a missing authenticity score was repaired to the 3 its reason
\* states.
C7_Witness ==
    /\ fn_pc = "fixed"
    /\ fn_parsed["authenticity_score"] = None
    /\ fn_parsed["authenticity_reason"] = Str(<<"w", "3">>)
    /\ fn_fixed["authenticity_score"] = Float(3, 0)

\* C8: validating a validated record changes nothing, and validating a record
\* whose three scores lie in [1,5] changes nothing.
C8_Idempotent ==
    /\ fn_pc = "refixed" => fn_refixed = fn_fixed
    /\ (FnFixed /\ \A k \in ScoreKeys : InRange(fn_parsed[k])) => fn_fixed = fn_parsed

\* C8 witness: a record the first validation changed has been validated again.
C8_Witness == fn_pc = "refixed" /\ fn_fixed # fn_parsed /\ fn_refixed = fn_fixed

\* One step of a run keeps the order of the steps of a triple: the call is
\* followed by parse, parse by validate, validate by append, append by the
\* pacing delay, and a call is only reached from the pacing delay of the
\* triple before it or, for the first triple of a row, from the read of the
\* row, which follows the start of the loop or a pacing delay.
C11_StepOrder ==
    /\ pc = "call" => pc' \in {"parse", "aborted"}
    /\ pc = "parse" => pc' = "validate"
    /\ pc = "validate" => pc' = "append"
    /\ pc = "append" => pc' = "sleep"
    /\ pc' = "call" => pc \in {"sleep", "next_row"}
    /\ pc' = "next_row" => pc \in {"open", "sleep"}
    /\ Len(results') \in {Len(results), Len(results) + 1}
    /\ Len(results') = Len(results) + 1 <=> (pc = "append" /\ pc' = "sleep")

\* C11 (as claimed): in every script the steps of a triple are taken one at a
\* time in the order call, parse, validate, append, pacing delay, and the next
\* call comes only after the pacing delay, whether the call failed or not.
C11_StrictSequence == [][C11_StepOrder]_vars

\* C12 (as claimed): in the gemini evaluator, the gpt4omini evaluator and the
\* generator, a run whose key file is missing or empty never gets past the
\* construction: it makes no call, appends no record and writes no output,
\* and when it has ended it has ended with the exception of the construction.
C12_BadKeyAbortsBeforeWork ==
    key_file # "present" =>
        /\ pc \in {"main", "aborted"}
        /\ pc = "aborted" => error \in {"FileNotFoundError", "Exception"}
        /\ evaluation = <<>> /\ generated_recipe = <<>>
        /\ results = <<>> /\ heap = <<>>
        /\ writes = 0 /\ output = <<>>

\* s occurs in t as a run of consecutive tokens.
C13_Within(s, t) == \E a \in 0..(Len(t) - Len(s)) : SubSeq(t, a + 1, a + Len(s)) = s

\* The part of a rendered answer in which the reason of criterion c may lie:
\* from the label of c to the label of the next criterion, to the end of the
\* text for harmony.
C13_Span(doc, c) ==
    DocSection(doc, c) \o (IF c = "harmony" THEN doc.layout.trail ELSE <<>>)

\* The section of criterion c is there and has a Reason line.
C13_HasReasonLine(doc, c) == c = doc.focus \/ doc.others = "full"

\* C13 (as claimed): the reason parse_evaluation returns for a criterion is
\* text of that criterion's own section (between its label and the label of
\* the next criterion, the end of the text for harmony), and it is None when
\* the section has no Reason line.
C13_ReasonWithinOwnSection ==
    (FnParsed /\ fn_doc.kind = "doc") =>
        \A k \in 1..3 :
            LET c == Criteria[k]
                r == fn_parsed[ReasonKey(c)]
            IN  /\ ~C13_HasReasonLine(fn_doc, c) => r = None
                /\ r # None => C13_Within(r.s, C13_Span(fn_doc, c))

\* One step of a run leaves every record of results as it is: results only
\* grows at its end, each of its entries still refers to the dict it referred
\* to, that dict has the fields it had, and no two entries share a dict.
C14_StepKeepsRecords ==
    /\ Len(results') >= Len(results)
    /\ \A i \in 1..Len(results) :
         /\ results'[i] = results[i]
         /\ heap'[results[i]] = heap[results[i]]
    /\ \A i \in 1..Len(results') : \A j \in 1..Len(results') :
         i # j => results'[i] # results'[j]

\* C14: building and appending the record of a later triple changes no field
\* of a record appended before, records of other iterations or evaluators of
\* the same input row included.
C14_RecordsIndependent == [][C14_StepKeepsRecords]_vars

\* C14 witness: results holds records of the same input row for two
\* iterations and for two evaluators, each with its own iteration and
\* evaluator fields.
C14_Witness ==
    /\ pipeline = "ollama"
    /\ Len(results) > NumIterations
    /\ Record(1)["original_dish"] = Record(NumIterations + 1)["original_dish"]
    /\ Record(1)["iteration"] = PyInt(1)
    /\ Record(2)["iteration"] = PyInt(2)
    /\ Record(1)["evaluator_model"] # Record(NumIterations + 1)["evaluator_model"]

\* C15 (as claimed): whatever columns the input file has besides the required
\* ones, every record of results has only keys that are fieldnames of
\* save_to_csv, no run ends with the ValueError of the writer or a KeyError
\* of a row, and a run that has written has written every record.
C15_KeysWithinFieldnames ==
    /\ \A i \in 1..Len(results) : DOMAIN Record(i) \subseteq fieldnames(pipeline)
    /\ pc = "aborted" => error \notin {"ValueError", "KeyError"}
    /\ writes = 1 => Len(output) = Len(results)
====
